---- MODULE Spec2Model ----
(***************************************************************************)
(* A model of CANopen-monitor's frame bus (canmon/bus.py, class            *)
(* TheMagicCanBus), message table (canopen_monitor/can/message_table.py,   *)
(* class MessageTable) and scrolling pane (canopen_monitor/ui/             *)
(* message_pane.py, class MessagePane).                                    *)
(*                                                                         *)
(* The bus is modelled with one caller thread (the thread that calls       *)
(* start, stop, stop_all, receive and running) and one listener thread     *)
(* per started device.  Every thread has a program counter, so that the    *)
(* points at which the interpreter may switch threads inside a method      *)
(* (between two iterations of a for loop over self.devs, between the       *)
(* fetch of an element and the call made with it) are states of the model. *)
(***************************************************************************)
EXTENDS Integers, Sequences, FiniteSets, TLC

\* ------------------------------------------------------------------ bounds
\* the number of devices started over a run
MaxDevs == 2
\* the number of frames the devices deliver over a run
MaxFrames == 2
\* the number of insertions into the message table over a run
MaxAdds == 4
\* the largest start or stop of a window, and the smallest one negated
MaxWin == 2
\* the largest height of a pane
MaxHeight == 12
\* the largest index the top of a pane's window is scrolled to
MaxTop == 3

\* ------------------------------------------------------------ input domains
Handles == 1..MaxDevs
\* interface names handed to start(): the k-th call of start names DevNames[k]
DevNames == <<"can0", "can1", "can2", "can3">>
\* timeout: <<>> is None, <<n>> is the number n (in tenths of a second)
Timeouts == {<<>>, <<-1>>, <<0>>, <<1>>}
\* arbitration ids of the messages inserted into the table
ArbIds == {128, 385, 1793}
\* what a message carries besides its id
Texts == {"raw", "raw2"}

VARIABLES
    \* ---- TheMagicCanBus fields
    devs,            \* self.devs: list of device handles
    frames,          \* self.frames: Queue of [frame, ndev]
    stop_listening,  \* self.stop_listening: threading.Event
    block,           \* self.block
    timeout,         \* self.timeout
    threads,         \* self.threads: list of listener threads (thread h listens on handle h)
    \* ---- the devices
    ndev,            \* ndev[h]: dev.ndev, the interface name of handle h
    dev_running,     \* dev_running[h]: dev.running, set by dev.start()
    nrecv,           \* nrecv[h]: the number of frames recv() has returned on handle h
    \* ---- the listener threads
    lpc,             \* lpc[h]: position of listener h in listen()
    held,            \* held[h]: the frame recv() returned to listener h, not yet put (0: none)
    joined,          \* the listener threads join() has returned for
    \* ---- the caller thread
    cpc,             \* position of the caller
    op,              \* the method the caller is in, or was in last
    arg,             \* its argument: <<dev_name>> or <<dev>>
    cur,             \* stop_all: the dev variable of the for loop (0: unset)
    it,              \* index of the list iterator in use (stop_all, running)
    acc,             \* running(): the handles the filter has let through
    ret,             \* how the last call ended
    val,             \* what it returned, as a sequence
    \* ---- observation of the queue
    enq,             \* every queue item, in the order put() stored them
    deq,             \* every queue item, in the order get() returned them
    \* ---- MessageTable fields
    table,           \* self.table: dict arb_id -> message
    parser,          \* self.parser ("None" or "parser")
    tret,            \* how the last call on a table ended
    added,           \* the messages of the insertions that returned, in order
    tcall,           \* the last call on a table: its name and its arguments
    pret,            \* how the last call of parser.parse ended
    w_start,         \* self.__start (<<>>: the attribute is not set)
    w_stop,          \* self.__stop (<<>>: the attribute is not set)
    w_keys,          \* self.__keys (<<>>: the attribute is not set)
    win,             \* <<start, stop>> of the last __call__
    out,             \* the messages __next__ returned since the last __call__ or __iter__
    wpc,             \* how the last of __call__, __iter__, __next__ ended
    filtered,        \* the table the last filter() returned (<<>>: none yet)
    \* ---- a caller that compares two filtered windows of the table
    qarg,            \* <<[t1, t2, a, b]>>: two lists of types, start and stop
    qnested,         \* <<the messages of table.filter(t1).filter(t2)(a, b)>>
    qunion,          \* <<the messages of table.filter(t1 + t2)(a, b)>>
    \* ---- MessagePane fields
    pane_types,      \* self.types
    d_height,        \* self.d_height
    top,             \* self.__top
    top_max,         \* self.__top_max
    cursor,          \* self.cursor
    cursor_min,      \* self.cursor_min
    cursor_max       \* self.cursor_max

busVars == <<devs, frames, stop_listening, block, timeout, threads, ndev,
             dev_running, nrecv, lpc, held, joined, cpc, op, arg, cur, it,
             acc, ret, val, enq, deq>>
windowVars == <<w_start, w_stop, w_keys, win, out, wpc>>
tableVars == <<table, parser, tret, added, tcall, pret, windowVars, filtered>>
queryVars == <<qarg, qnested, qunion>>
paneVars == <<pane_types, d_height, top, top_max, cursor, cursor_min, cursor_max>>
vars == <<busVars, tableVars, queryVars, paneVars>>

\* ------------------------------------------------------------------ helpers
\* the positions of a listener that has terminated
Terminated == {"exited", "detached", "crashed"}
\* the positions of a listener that is alive
Alive == {"loop", "recv", "put", "except"}

Range(s) == {s[i] : i \in 1..Len(s)}

\* index of the first occurrence of x in s (0 when absent)
IndexOf(s, x) ==
    IF x \in Range(s) THEN CHOOSE i \in 1..Len(s) : s[i] = x /\ \A j \in 1..(i-1) : s[j] /= x
    ELSE 0

\* list.remove(x): the list without the first occurrence of x
ListRemove(s, x) ==
    LET k == IndexOf(s, x)
    IN [i \in 1..(Len(s) - 1) |-> IF i < k THEN s[i] ELSE s[i + 1]]

\* the number of frames the devices have delivered
RECURSIVE Delivered(_, _)
Delivered(n, k) == IF k = 0 THEN 0 ELSE n[k] + Delivered(n, k - 1)

\* FrameData(res[0], res[1])
FrameData(item) == [frame |-> item[1], ndev |-> item[2]]

\* ---------------------------------------------------------------- __init__
\* TheMagicCanBus.__init__(device_names=[], block=b, timeout=t)
BusInit(b, t) ==
    /\ devs = <<>>
    /\ frames = <<>>
    /\ stop_listening = FALSE
    /\ block = b
    /\ timeout = t
    /\ threads = <<>>
    /\ ndev = [h \in Handles |-> ""]
    /\ dev_running = [h \in Handles |-> FALSE]
    /\ nrecv = [h \in Handles |-> 0]
    /\ lpc = [h \in Handles |-> "none"]
    /\ held = [h \in Handles |-> 0]
    /\ joined = {}
    /\ cpc = "idle"
    /\ op = ""
    /\ arg = <<>>
    /\ cur = 0
    /\ it = 0
    /\ acc = <<>>
    /\ ret = ""
    /\ val = <<>>
    /\ enq = <<>>
    /\ deq = <<>>

\* MessageTable.__init__(parser)
TableInit ==
    /\ table = [k \in {} |-> 0]
    /\ parser \in {"None", "parser"}
    /\ tret = ""
    /\ added = <<>>
    /\ tcall = <<>>
    /\ pret = ""
    /\ w_start = <<>>
    /\ w_stop = <<>>
    /\ w_keys = <<>>
    /\ win = <<>>
    /\ out = <<>>
    /\ wpc = ""
    /\ filtered = <<>>

\* no caller compares filtered windows
QueryIdle ==
    /\ qarg = <<>>
    /\ qnested = <<>>
    /\ qunion = <<>>

\* Pane.__init__(height=height): the height the pane displays
PaneHeight(height) == height

\* MessagePane.__init__(types=types, height=height)
PaneInit(height, types) ==
    /\ pane_types = types
    /\ d_height = PaneHeight(height)
    /\ top = 0
    /\ top_max = 0
    /\ cursor = 0
    /\ cursor_min = 0
    /\ cursor_max = PaneHeight(height) - 10

\* the heartbeat pane of a run in which no pane is used
PaneIdle == PaneInit(1, {"HEARTBEAT"})

\* ------------------------------------------------------- the caller: entry
\* the caller enters a method of the bus
Call(name, a) ==
    /\ cpc = "idle"
    /\ op' = name
    /\ arg' = a
    /\ ret' = ""
    /\ val' = <<>>

\* the caller leaves the method it is in
Return(r, v) ==
    /\ cpc' = "idle"
    /\ ret' = r
    /\ val' = v

call_start(dev_name) ==
    /\ Len(threads) < MaxDevs
    /\ dev_name = DevNames[Len(threads) + 1]
    /\ Call("start", <<dev_name>>)
    /\ cpc' = "start"
    /\ UNCHANGED <<devs, frames, stop_listening, block, timeout, threads, ndev,
                   dev_running, nrecv, lpc, held, joined, cur, it, acc, enq, deq>>

call_stop(dev) ==
    /\ dev \in Range(threads)
    /\ Call("stop", <<dev>>)
    /\ cpc' = "stop"
    /\ UNCHANGED <<devs, frames, stop_listening, block, timeout, threads, ndev,
                   dev_running, nrecv, lpc, held, joined, cur, it, acc, enq, deq>>

call_stop_all ==
    /\ Call("stop_all", <<>>)
    /\ cpc' = "stop_all_for"
    /\ it' = 0
    /\ cur' = 0
    /\ UNCHANGED <<devs, frames, stop_listening, block, timeout, threads, ndev,
                   dev_running, nrecv, lpc, held, joined, acc, enq, deq>>

call_receive ==
    /\ Call("receive", <<>>)
    /\ cpc' = "receive"
    /\ UNCHANGED <<devs, frames, stop_listening, block, timeout, threads, ndev,
                   dev_running, nrecv, lpc, held, joined, cur, it, acc, enq, deq>>

call_running ==
    /\ Call("running", <<>>)
    /\ cpc' = "running"
    /\ it' = 0
    /\ acc' = <<>>
    /\ UNCHANGED <<devs, frames, stop_listening, block, timeout, threads, ndev,
                   dev_running, nrecv, lpc, held, joined, cur, enq, deq>>

\* ------------------------------------------------------------------- start
\* start() with self.devs.append(dev) moved before dev.start(): a device that
\* fails to start stays in the list
start_appends_first ==
    /\ cpc = "start"
    /\ \/ /\ Return("OSError", <<>>)
          /\ devs' = Append(devs, Len(threads) + 1)
          /\ UNCHANGED <<threads, ndev, dev_running, lpc>>
       \/ /\ LET dev == Len(threads) + 1
             IN /\ ndev' = [ndev EXCEPT ![dev] = arg[1]]
                /\ dev_running' = [dev_running EXCEPT ![dev] = TRUE]
                /\ devs' = Append(devs, dev)
                /\ lpc' = [lpc EXCEPT ![dev] = "loop"]
                /\ threads' = Append(threads, dev)
          /\ Return("ok", <<>>)
    /\ UNCHANGED <<frames, stop_listening, block, timeout, nrecv, held, joined,
                   op, arg, cur, it, acc, enq, deq>>

\* start() without dev_listener.start(): the thread is recorded, never run
start_without_thread ==
    /\ cpc = "start"
    /\ \/ /\ Return("OSError", <<>>)
          /\ UNCHANGED <<devs, threads, ndev, dev_running, lpc>>
       \/ /\ LET dev == Len(threads) + 1
             IN /\ ndev' = [ndev EXCEPT ![dev] = arg[1]]
                /\ dev_running' = [dev_running EXCEPT ![dev] = TRUE]
                /\ devs' = Append(devs, dev)
                /\ lpc' = lpc
                /\ threads' = Append(threads, dev)
          /\ Return("ok", <<>>)
    /\ UNCHANGED <<frames, stop_listening, block, timeout, nrecv, held, joined,
                   op, arg, cur, it, acc, enq, deq>>

\* start(dev_name): SocketCanDev(dev_name) or dev.start() raises and nothing
\* after line 24 runs, or the device starts and lines 25-30 run
start ==
    /\ cpc = "start"
    /\ \/ /\ Return("OSError", <<>>)
          /\ UNCHANGED <<devs, threads, ndev, dev_running, lpc>>
       \/ /\ LET dev == Len(threads) + 1
             IN /\ ndev' = [ndev EXCEPT ![dev] = arg[1]]
                /\ dev_running' = [dev_running EXCEPT ![dev] = TRUE]
                /\ devs' = Append(devs, dev)
                /\ lpc' = [lpc EXCEPT ![dev] = "loop"]
                /\ threads' = Append(threads, dev)
          /\ Return("ok", <<>>)
    /\ UNCHANGED <<frames, stop_listening, block, timeout, nrecv, held, joined,
                   op, arg, cur, it, acc, enq, deq>>

\* -------------------------------------------------------------------- stop
\* self.devs.remove(dev), when dev is in the list
stop(dev) ==
    /\ dev \in Range(devs)
    /\ devs' = ListRemove(devs, dev)

\* self.devs.remove(dev) raises ValueError: dev is not in the list
stop_raises(dev) ==
    /\ dev \notin Range(devs)
    /\ devs' = devs

\* stop(dev) that also raises the stop signal
caller_stop_signals ==
    /\ cpc = "stop"
    /\ \/ stop(arg[1]) /\ Return("ok", <<>>)
       \/ stop_raises(arg[1]) /\ Return("ValueError", <<>>)
    /\ stop_listening' = TRUE
    /\ UNCHANGED <<frames, block, timeout, threads, ndev,
                   dev_running, nrecv, lpc, held, joined, op, arg, cur, it,
                   acc, enq, deq>>

\* stop(dev) that is a silent no-op for a handle that is not listed
caller_stop_discards ==
    /\ cpc = "stop"
    /\ devs' = SelectSeq(devs, LAMBDA x : x /= arg[1])
    /\ Return("ok", <<>>)
    /\ UNCHANGED <<frames, stop_listening, block, timeout, threads, ndev,
                   dev_running, nrecv, lpc, held, joined, op, arg, cur, it,
                   acc, enq, deq>>

\* the caller's stop(dev)
caller_stop ==
    /\ cpc = "stop"
    /\ \/ stop(arg[1]) /\ Return("ok", <<>>)
       \/ stop_raises(arg[1]) /\ Return("ValueError", <<>>)
    /\ UNCHANGED <<frames, stop_listening, block, timeout, threads, ndev,
                   dev_running, nrecv, lpc, held, joined, op, arg, cur, it,
                   acc, enq, deq>>

\* ---------------------------------------------------------------- stop_all
\* for dev in self.devs: the list iterator's next()
stop_all_for ==
    /\ cpc = "stop_all_for"
    /\ IF it < Len(devs)
       THEN /\ cur' = devs[it + 1]
            /\ it' = it + 1
            /\ cpc' = "stop_all_stop"
       ELSE /\ cur' = 0
            /\ it' = 0
            /\ cpc' = "stop_all_set"
    /\ UNCHANGED <<devs, frames, stop_listening, block, timeout, threads, ndev,
                   dev_running, nrecv, lpc, held, joined, op, arg, acc, ret,
                   val, enq, deq>>

\* self.stop(dev) in the loop body; a ValueError leaves stop_all
stop_all_stop ==
    /\ cpc = "stop_all_stop"
    /\ \/ /\ stop(cur)
          /\ cpc' = "stop_all_for"
          /\ UNCHANGED <<cur, it, ret, val>>
       \/ /\ stop_raises(cur)
          /\ Return("ValueError", <<>>)
          /\ cur' = 0
          /\ it' = 0
    /\ UNCHANGED <<frames, stop_listening, block, timeout, threads, ndev,
                   dev_running, nrecv, lpc, held, joined, op, arg, acc, enq, deq>>

\* self.stop_listening.set()
stop_all_set ==
    /\ cpc = "stop_all_set"
    /\ stop_listening' = TRUE
    /\ cpc' = "stop_all_join"
    /\ it' = 0
    /\ UNCHANGED <<devs, frames, block, timeout, threads, ndev, dev_running,
                   nrecv, lpc, held, joined, op, arg, cur, acc, ret, val, enq, deq>>

\* for thread in self.threads: thread.join(), then return
stop_all_join ==
    /\ cpc = "stop_all_join"
    /\ IF it < Len(threads)
       THEN /\ lpc[threads[it + 1]] \in Terminated
            /\ joined' = joined \cup {threads[it + 1]}
            /\ it' = it + 1
            /\ UNCHANGED <<cpc, ret, val>>
       ELSE /\ Return("ok", <<>>)
            /\ it' = 0
            /\ UNCHANGED joined
    /\ UNCHANGED <<devs, frames, stop_listening, block, timeout, threads, ndev,
                   dev_running, nrecv, lpc, held, op, arg, cur, acc, enq, deq>>

\* ----------------------------------------------------------------- receive
\* Queue.get(block, timeout) raises ValueError: a blocking get with a negative timeout
GetRejects(b, t) == b /\ t /= <<>> /\ t[1] < 0

\* Queue.get(block, timeout) on an empty queue raises Empty: a non-blocking
\* get, or a blocking one whose timeout has run out
GetEmpty(b, t) == ~b \/ (t /= <<>> /\ t[1] >= 0)

\* a get that takes the newest item
GetNewest(q) == q[Len(q)]

\* Queue._get(): the item get() takes from the queue q
GetItem(q) == Head(q)

\* Queue._get(): the queue q after get() took its item
GetRest(q) == Tail(q)

\* receive() without its except clause: Empty reaches the caller
receive_without_except ==
    /\ cpc = "receive"
    /\ IF GetRejects(block, timeout)
       THEN /\ Return("ValueError", <<>>)
            /\ UNCHANGED <<frames, deq>>
       ELSE IF frames = <<>>
       THEN /\ GetEmpty(block, timeout)
            /\ Return("Empty", <<>>)
            /\ UNCHANGED <<frames, deq>>
       ELSE /\ Return("FrameData", <<FrameData(GetItem(frames))>>)
            /\ deq' = Append(deq, GetItem(frames))
            /\ frames' = GetRest(frames)
    /\ UNCHANGED <<devs, stop_listening, block, timeout, threads, ndev,
                   dev_running, nrecv, lpc, held, joined, op, arg, cur, it,
                   acc, enq>>

\* receive(): a blocking get without timeout waits while the queue is empty
receive ==
    /\ cpc = "receive"
    /\ IF GetRejects(block, timeout)
       THEN /\ Return("ValueError", <<>>)
            /\ UNCHANGED <<frames, deq>>
       ELSE IF frames = <<>>
       THEN /\ GetEmpty(block, timeout)
            /\ Return("None", <<>>)
            /\ UNCHANGED <<frames, deq>>
       ELSE /\ Return("FrameData", <<FrameData(GetItem(frames))>>)
            /\ deq' = Append(deq, GetItem(frames))
            /\ frames' = GetRest(frames)
    /\ UNCHANGED <<devs, stop_listening, block, timeout, threads, ndev,
                   dev_running, nrecv, lpc, held, joined, op, arg, cur, it,
                   acc, enq>>

\* ----------------------------------------------------------------- running
\* list(filter(lambda x: x.running, self.devs)): one element of the list
\* iterator per step, then the list is returned
running ==
    /\ cpc = "running"
    /\ IF it < Len(devs)
       THEN /\ acc' = IF dev_running[devs[it + 1]] THEN Append(acc, devs[it + 1]) ELSE acc
            /\ it' = it + 1
            /\ UNCHANGED <<cpc, ret, val>>
       ELSE /\ Return("list", acc)
            /\ acc' = <<>>
            /\ it' = 0
    /\ UNCHANGED <<devs, frames, stop_listening, block, timeout, threads, ndev,
                   dev_running, nrecv, lpc, held, joined, op, arg, cur, enq, deq>>

\* ------------------------------------------------------------------ listen
\* while not self.stop_listening.is_set()
listen_while(dev) ==
    /\ lpc[dev] = "loop"
    /\ lpc' = [lpc EXCEPT ![dev] = IF stop_listening THEN "exited" ELSE "recv"]
    /\ UNCHANGED <<devs, frames, stop_listening, block, timeout, threads, ndev,
                   dev_running, nrecv, held, joined, cpc, op, arg, cur, it, acc,
                   ret, val, enq, deq>>

\* dev.recv() returns a frame (the device's next one), or raises OSError
listen_recv(dev) ==
    /\ lpc[dev] = "recv"
    /\ \/ /\ Delivered(nrecv, MaxDevs) < MaxFrames
          /\ nrecv' = [nrecv EXCEPT ![dev] = nrecv[dev] + 1]
          /\ held' = [held EXCEPT ![dev] = nrecv[dev] + 1]
          /\ lpc' = [lpc EXCEPT ![dev] = "put"]
       \/ /\ lpc' = [lpc EXCEPT ![dev] = "except"]
          /\ UNCHANGED <<nrecv, held>>
    /\ UNCHANGED <<devs, frames, stop_listening, block, timeout, threads, ndev,
                   dev_running, joined, cpc, op, arg, cur, it, acc, ret, val,
                   enq, deq>>

\* self.frames = Queue(): the queue is made without a maxsize
maxsize == 0

\* Queue.put finds the queue full: only a queue with a positive maxsize can be
QueueFull(q) == maxsize > 0 /\ Len(q) >= maxsize

\* self.frames.put([frame, dev.ndev], block=self.block): the item is appended;
\* on a full queue a non-blocking put raises Full, which listen swallows and
\* so leaves its loop (except Full: pass), and a blocking put waits
listen_put(dev) ==
    /\ lpc[dev] = "put"
    /\ \/ /\ ~QueueFull(frames)
          /\ frames' = Append(frames, <<held[dev], ndev[dev]>>)
          /\ enq' = Append(enq, <<held[dev], ndev[dev]>>)
          /\ lpc' = [lpc EXCEPT ![dev] = "loop"]
       \/ /\ QueueFull(frames) /\ ~block
          /\ lpc' = [lpc EXCEPT ![dev] = "exited"]
          /\ UNCHANGED <<frames, enq>>
    /\ held' = [held EXCEPT ![dev] = 0]
    /\ UNCHANGED <<devs, stop_listening, block, timeout, threads, ndev,
                   dev_running, nrecv, joined, cpc, op, arg, cur, it, acc, ret,
                   val, deq>>

\* except OSError: pass
listen_except_pass(dev) ==
    /\ lpc[dev] = "except"
    /\ lpc' = [lpc EXCEPT ![dev] = "detached"]
    /\ UNCHANGED <<devs, frames, stop_listening, block, timeout, threads, ndev,
                   dev_running, nrecv, held, joined, cpc, op, arg, cur, it, acc,
                   ret, val, enq, deq>>

\* except OSError: self.stop(dev); a ValueError of stop ends the thread too
listen_except(dev) ==
    /\ lpc[dev] = "except"
    /\ \/ stop(dev) /\ lpc' = [lpc EXCEPT ![dev] = "detached"]
       \/ stop_raises(dev) /\ lpc' = [lpc EXCEPT ![dev] = "crashed"]
    /\ UNCHANGED <<frames, stop_listening, block, timeout, threads, ndev,
                   dev_running, nrecv, held, joined, cpc, op, arg, cur, it, acc,
                   ret, val, enq, deq>>

\* --------------------------------------------------------------- the bus
\* the table of a run in which only the bus is used
TableIdle == TableInit /\ parser = "None" /\ QueryIdle /\ PaneIdle

\* the bus as app code constructs it: block=True, timeout=0.1
Init == BusInit(TRUE, <<1>>) /\ TableIdle

\* the bus constructed with any block and timeout
InitCfg == (\E b \in BOOLEAN, t \in Timeouts : BusInit(b, t)) /\ TableIdle

Next ==
    \/ (\E n \in Range(DevNames) : call_start(n)) /\ UNCHANGED <<tableVars, queryVars, paneVars>>
    \/ (\E d \in Handles : call_stop(d)) /\ UNCHANGED <<tableVars, queryVars, paneVars>>
    \/ call_stop_all /\ UNCHANGED <<tableVars, queryVars, paneVars>>
    \/ call_receive /\ UNCHANGED <<tableVars, queryVars, paneVars>>
    \/ call_running /\ UNCHANGED <<tableVars, queryVars, paneVars>>
    \/ start /\ UNCHANGED <<tableVars, queryVars, paneVars>>
    \/ caller_stop /\ UNCHANGED <<tableVars, queryVars, paneVars>>
    \/ stop_all_for /\ UNCHANGED <<tableVars, queryVars, paneVars>>
    \/ stop_all_stop /\ UNCHANGED <<tableVars, queryVars, paneVars>>
    \/ stop_all_set /\ UNCHANGED <<tableVars, queryVars, paneVars>>
    \/ stop_all_join /\ UNCHANGED <<tableVars, queryVars, paneVars>>
    \/ receive /\ UNCHANGED <<tableVars, queryVars, paneVars>>
    \/ running /\ UNCHANGED <<tableVars, queryVars, paneVars>>
    \/ (\E d \in Handles : listen_while(d)) /\ UNCHANGED <<tableVars, queryVars, paneVars>>
    \/ (\E d \in Handles : listen_recv(d)) /\ UNCHANGED <<tableVars, queryVars, paneVars>>
    \/ (\E d \in Handles : listen_put(d)) /\ UNCHANGED <<tableVars, queryVars, paneVars>>
    \/ (\E d \in Handles : listen_except(d)) /\ UNCHANGED <<tableVars, queryVars, paneVars>>

Spec == Init /\ [][Next]_vars

\* the consumer's side of the bus: devices are attached, their listeners
\* run, and the caller polls receive()
NextReceive ==
    \/ (\E n \in Range(DevNames) : call_start(n)) /\ UNCHANGED <<tableVars, queryVars, paneVars>>
    \/ call_receive /\ UNCHANGED <<tableVars, queryVars, paneVars>>
    \/ start /\ UNCHANGED <<tableVars, queryVars, paneVars>>
    \/ receive /\ UNCHANGED <<tableVars, queryVars, paneVars>>
    \/ (\E d \in Handles : listen_while(d)) /\ UNCHANGED <<tableVars, queryVars, paneVars>>
    \/ (\E d \in Handles : listen_recv(d)) /\ UNCHANGED <<tableVars, queryVars, paneVars>>
    \/ (\E d \in Handles : listen_put(d)) /\ UNCHANGED <<tableVars, queryVars, paneVars>>
    \/ (\E d \in Handles : listen_except(d)) /\ UNCHANGED <<tableVars, queryVars, paneVars>>

SpecCfg == InitCfg /\ [][NextReceive]_vars

\* ------------------------------------------------------------ MessageTable
\* a message as the caller hands it to the table
Messages == [arb_id : ArbIds, message : Texts]

\* message.type: the type the arbitration id classifies the message as
type(v) ==
    CASE v.arb_id = 128 -> "SYNC"
      [] v.arb_id = 385 -> "PDO"
      [] OTHER -> "HEARTBEAT"

\* message.supertype: the coarser group of the type
supertype(v) == IF type(v) = "HEARTBEAT" THEN "HEARTBEAT" ELSE "MISC"

\* the values a list of types is made of
MessageType == {"HEARTBEAT", "SYNC", "PDO", "MISC"}

\* self.parser.parse(message): the text the parser decodes the message to
Parse(m) == IF m.message = "raw" THEN "decoded" ELSE "decoded2"

\* the message __add__ stores: message.message is the parser's text when the
\* table has a parser
Stored(p, m) == IF p /= "None" THEN [m EXCEPT !.message = Parse(m)] ELSE m

\* a table keyed by the node id (the low 7 bits) instead of the arbitration id
SetItemByNode(t, m) ==
    [k \in DOMAIN t \cup {m.arb_id % 128} |-> IF k = m.arb_id % 128 THEN m ELSE t[k]]

\* a table that keeps the entry an id already has (dict.setdefault)
SetItemIfAbsent(t, m) ==
    [k \in DOMAIN t \cup {m.arb_id} |-> IF k \in DOMAIN t THEN t[k] ELSE m]

\* self.table[message.arb_id] = message
SetItem(t, m) ==
    [k \in DOMAIN t \cup {m.arb_id} |-> IF k = m.arb_id THEN m ELSE t[k]]

\* __len__: len(self.table)
TableLen(t) == Cardinality(DOMAIN t)

\* __add__(message): parse raises and nothing is stored, or the message
\* (decoded when there is a parser) is stored under its arbitration id
add(m) ==
    /\ Len(added) < MaxAdds
    /\ tcall' = <<"add", m>>
    /\ \/ /\ parser /= "None"
          /\ pret' = "raise"
          /\ tret' = "raise"
          /\ UNCHANGED <<table, added>>
       \/ /\ table' = SetItem(table, IF parser /= "None"
                                     THEN [m EXCEPT !.message = Parse(m)]
                                     ELSE m)
          /\ pret' = (IF parser /= "None" THEN "text" ELSE pret)
          /\ tret' = "self"
          /\ added' = Append(added, m)
    /\ UNCHANGED <<parser, windowVars, filtered>>

\* a filter in which a message passes when just one of its type and
\* supertype is in types
FilterEither(t, types) ==
    [k \in {j \in DOMAIN t : (type(t[j]) \in types) /= (supertype(t[j]) \in types)}
       |-> t[k]]

\* a filter that looks at the type only
FilterByType(t, types) ==
    [k \in {j \in DOMAIN t : type(t[j]) \in types} |-> t[k]]

\* the dict filter(types) builds: the entries of t whose type or supertype is
\* in types
Filter(t, types) ==
    [k \in {j \in DOMAIN t : type(t[j]) \in types \/ supertype(t[j]) \in types}
       |-> t[k]]

\* filter(types): a new MessageTable with the receiver's parser
filter(types) ==
    /\ filtered' = <<[table |-> Filter(table, types), parser |-> parser]>>
    /\ tcall' = <<"filter", types>>
    /\ tret' = "filtered"
    /\ UNCHANGED <<table, parser, added, pret, windowVars>>

\* __add__(message) on the table filter() returned
filtered_add(m) ==
    /\ filtered /= <<>>
    /\ tcall' = <<"filtered.add", m>>
    /\ \/ /\ filtered[1].parser /= "None"
          /\ pret' = "raise"
          /\ tret' = "raise"
          /\ UNCHANGED filtered
       \/ /\ filtered' = <<[filtered[1] EXCEPT
                              !.table = SetItem(@, Stored(filtered[1].parser, m))]>>
          /\ pret' = (IF filtered[1].parser /= "None" THEN "text" ELSE pret)
          /\ tret' = "self"
    /\ UNCHANGED <<table, parser, added, windowVars>>

\* sorted(list(self.table.keys()))
SortedKeys(t) ==
    CHOOSE s \in [1..Cardinality(DOMAIN t) -> DOMAIN t] :
        \A i, j \in 1..Cardinality(DOMAIN t) : i < j => s[i] < s[j]

\* keys[i] of a Python list is defined for -len <= i < len
InRange(keys, i) == 0 - Len(keys) <= i /\ i < Len(keys)

\* keys[i] of a Python list: a negative index counts from the end
ListItem(keys, i) == IF i >= 0 THEN keys[i + 1] ELSE keys[Len(keys) + i + 1]

\* self.__stop = stop if stop < len(self.table) else len(self.table)
CallStop(t, stop_) == IF stop_ < TableLen(t) THEN stop_ ELSE TableLen(t)

\* self.__start = start if start < self.__stop else self.__stop
CallStart(t, start_, stop_) ==
    IF start_ < CallStop(t, stop_) THEN start_ ELSE CallStop(t, stop_)

\* __call__(start, stop): sets the window on the table and returns the table
call(start_, stop_) ==
    /\ w_stop' = <<CallStop(table, stop_)>>
    /\ w_start' = <<CallStart(table, start_, stop_)>>
    /\ win' = <<start_, stop_>>
    /\ out' = <<>>
    /\ wpc' = "self"
    /\ tcall' = <<"call", start_, stop_>>
    /\ UNCHANGED <<table, parser, tret, added, pret, w_keys, filtered>>

\* __iter__(): snapshots the sorted ids and returns the table
iter ==
    /\ w_keys' = <<SortedKeys(table)>>
    /\ out' = <<>>
    /\ wpc' = "self"
    /\ tcall' = <<"iter">>
    /\ UNCHANGED <<table, parser, tret, added, pret, w_start, w_stop, win,
                   filtered>>

\* __next__(): StopIteration when __start has reached __stop, otherwise the
\* message of the id at index __start of the snapshot, and __start moves on;
\* an attribute never set raises AttributeError, an index out of the list
\* IndexError
next ==
    /\ tcall' = <<"next">>
    /\ IF w_start = <<>> \/ w_stop = <<>>
       THEN wpc' = "AttributeError" /\ UNCHANGED <<w_start, out>>
       ELSE IF w_start = w_stop
       THEN wpc' = "StopIteration" /\ UNCHANGED <<w_start, out>>
       ELSE IF w_keys = <<>>
       THEN wpc' = "AttributeError" /\ UNCHANGED <<w_start, out>>
       ELSE IF ~InRange(w_keys[1], w_start[1])
       THEN wpc' = "IndexError" /\ UNCHANGED <<w_start, out>>
       ELSE /\ out' = Append(out, table[ListItem(w_keys[1], w_start[1])])
            /\ w_start' = <<w_start[1] + 1>>
            /\ wpc' = "message"
    /\ UNCHANGED <<table, parser, tret, added, pret, w_stop, w_keys, win,
                   filtered>>

\* the messages a for loop over the table gets from now on: __next__ until it
\* raises
RECURSIVE Rest(_, _, _, _)
Rest(t, keys, start_, stop_) ==
    IF start_ = stop_ \/ ~InRange(keys, start_)
    THEN <<>>
    ELSE <<t[ListItem(keys, start_)]>> \o Rest(t, keys, start_ + 1, stop_)

\* the messages of the loop: for message in t(start, stop)
Window(t, start_, stop_) ==
    Rest(t, SortedKeys(t), CallStart(t, start_, stop_), CallStop(t, stop_))

\* the bus of a run in which only the table is used
BusIdle == BusInit(TRUE, <<1>>)

InitTable == BusIdle /\ TableInit /\ QueryIdle /\ PaneIdle

NextTable ==
    \/ (\E m \in Messages : add(m)) /\ UNCHANGED <<busVars, queryVars, paneVars>>

SpecTable == InitTable /\ [][NextTable]_vars

\* the table after the insertions s, into a new table with parser p
RECURSIVE TableOf(_, _)
TableOf(p, s) ==
    IF s = <<>>
    THEN [k \in {} |-> 0]
    ELSE SetItem(TableOf(p, SubSeq(s, 1, Len(s) - 1)), Stored(p, s[Len(s)]))

\* a table that insertions have filled: one message for each id of any set
\* of ids, no window set yet
TableFilled ==
    /\ BusIdle
    /\ \E ids \in SUBSET ArbIds, p \in {"None", "parser"} :
          LET ks == SortedKeys([k \in ids |-> k])
              s == [i \in 1..Len(ks) |-> [arb_id |-> ks[i], message |-> "raw"]]
          IN /\ parser = p
             /\ table = TableOf(p, s)
             /\ added = s
             /\ tret = (IF s = <<>> THEN "" ELSE "self")
             /\ tcall = (IF s = <<>> THEN <<>> ELSE <<"add", s[Len(s)]>>)
             /\ pret = (IF s = <<>> \/ p = "None" THEN "" ELSE "text")
    /\ w_start = <<>>
    /\ w_stop = <<>>
    /\ w_keys = <<>>
    /\ win = <<>>
    /\ out = <<>>
    /\ wpc = ""
    /\ filtered = <<>>

InitView == TableFilled /\ QueryIdle /\ PaneIdle

\* the values a caller passes as start and stop
WinArgs == (0 - MaxWin)..MaxWin

\* windowed iteration of the table
NextWindow ==
    \/ (\E a, b \in WinArgs : call(a, b)) /\ UNCHANGED <<busVars, queryVars, paneVars>>
    \/ iter /\ UNCHANGED <<busVars, queryVars, paneVars>>
    \/ next /\ UNCHANGED <<busVars, queryVars, paneVars>>

SpecWindow == InitView /\ [][NextWindow]_vars

\* filtering of the table, and insertions into the filtered tables
NextFilter ==
    \/ (\E a, b \in WinArgs : call(a, b)) /\ UNCHANGED <<busVars, queryVars, paneVars>>
    \/ (\E types \in SUBSET MessageType : filter(types)) /\ UNCHANGED <<busVars, queryVars, paneVars>>
    \/ (\E m \in Messages : filtered_add(m)) /\ UNCHANGED <<busVars, queryVars, paneVars>>

SpecFilter == InitView /\ [][NextFilter]_vars

\* ------------------------------------------- two filtered windows compared
\* list(table.filter(t1).filter(t2)(a, b))
query_nested ==
    /\ qnested = <<>>
    /\ qnested' = <<Window(Filter(Filter(table, qarg[1].t1), qarg[1].t2),
                           qarg[1].a, qarg[1].b)>>
    /\ UNCHANGED <<qarg, qunion>>

\* list(table.filter(t1 + t2)(a, b))
query_union ==
    /\ qunion = <<>>
    /\ qunion' = <<Window(Filter(table, qarg[1].t1 \cup qarg[1].t2),
                          qarg[1].a, qarg[1].b)>>
    /\ UNCHANGED <<qarg, qnested>>

\* a filled table without parser, and any two lists of types and any window
InitQuery ==
    /\ TableFilled /\ parser = "None"
    /\ PaneIdle
    /\ qarg \in {<<q>> : q \in [t1 : SUBSET MessageType, t2 : SUBSET MessageType,
                                a : WinArgs, b : WinArgs]}
    /\ qnested = <<>>
    /\ qunion = <<>>

NextQuery ==
    \/ query_nested /\ UNCHANGED <<busVars, tableVars, paneVars>>
    \/ query_union /\ UNCHANGED <<busVars, tableVars, paneVars>>

SpecQuery == InitQuery /\ [][NextQuery]_vars

\* ------------------------------------------------------------- MessagePane
\* the lists of types of the panes the app builds
PaneTypes == {{"HEARTBEAT"}, {"SYNC", "PDO"}}

\* the heights a pane is given
PaneHeights == 1..MaxHeight

\* resize(height, width): Pane.resize sets the displayed height, then
\* cursor_max and __top_max are recomputed
resize(height) ==
    LET p_height == PaneHeight(height) - 3
        new_max == IF TableLen(table) < p_height THEN TableLen(table) ELSE p_height
        occluded == TableLen(Filter(table, pane_types)) - top - new_max
    IN /\ d_height' = PaneHeight(height)
       /\ cursor_max' = new_max
       /\ top_max' = (IF occluded > 0 THEN occluded ELSE 0)
       /\ UNCHANGED <<pane_types, top, cursor, cursor_min>>

\* scroll_up(): the cursor goes up; at cursor_min the window goes up instead
scroll_up ==
    /\ IF cursor - 1 < cursor_min
       THEN /\ cursor' = cursor_min
            /\ top' = (IF top - 1 < 0 THEN 0 ELSE top - 1)
       ELSE /\ cursor' = cursor - 1
            /\ top' = top
    /\ UNCHANGED <<pane_types, d_height, top_max, cursor_min, cursor_max>>

\* scroll_down(): the cursor goes down; at cursor_max - 1 the window goes
\* down instead, as long as __top_max is positive
scroll_down ==
    /\ IF cursor + 1 > cursor_max - 1
       THEN /\ cursor' = cursor_max - 1
            /\ IF top_max > 0
               THEN top < MaxTop /\ top' = top + 1
               ELSE top' = top
       ELSE /\ cursor' = cursor + 1
            /\ top' = top
    /\ UNCHANGED <<pane_types, d_height, top_max, cursor_min, cursor_max>>

\* a pane of any height and either list of types over a filled table
InitPane ==
    /\ TableFilled /\ parser = "None"
    /\ QueryIdle
    /\ \E h \in PaneHeights, ts \in PaneTypes : PaneInit(h, ts)

NextPane ==
    \/ (\E h \in PaneHeights : resize(h)) /\ UNCHANGED <<busVars, tableVars, queryVars>>
    \/ scroll_up /\ UNCHANGED <<busVars, tableVars, queryVars>>
    \/ scroll_down /\ UNCHANGED <<busVars, tableVars, queryVars>>

SpecPane == InitPane /\ [][NextPane]_vars

\* ================================================================ the claims
\* the caller has come back from a call of method m
Returned(m) == cpc = "idle" /\ op = m /\ ret /= ""

\* the handles of a list, as a list without handle h
Without(s, h) == SelectSeq(s, LAMBDA x : x /= h)

\* C1: whenever a call of stop_all has ended, it has ended by returning (not
\* by raising), and every listener thread ever spawned has terminated.
C1_StopAllReturnsAfterEveryListener ==
    Returned("stop_all") =>
        /\ ret = "ok"
        /\ \A h \in Range(threads) : lpc[h] \in Terminated

\* C2: when stop_all has returned, the active device list is empty.
C2_StopAllEmptiesDevs ==
    (Returned("stop_all") /\ ret = "ok") => devs = <<>>

\* C3: stop(dev) never blocks the caller, and the step that carries it out
\* changes nothing but the active list: the stop signal, the position and the
\* held frame of every listener (the detached device's included), the joined
\* threads, the thread list and the queue are as before, so every listener
\* goes on to put its frames on the queue.
C3_StopOnlyRemovesHandle ==
    /\ [](cpc = "stop" => ENABLED caller_stop)
    /\ [][(cpc = "stop" /\ cpc' = "idle") =>
            /\ devs' = Without(devs, arg[1])
            /\ ret' = (IF arg[1] \in Range(devs) THEN "ok" ELSE "ValueError")
            /\ stop_listening' = stop_listening
            /\ lpc' = lpc
            /\ held' = held
            /\ joined' = joined
            /\ threads' = threads
            /\ frames' = frames]_vars
    /\ [](\A h \in Range(threads) :
            (lpc[h] = "put" /\ h \notin Range(devs)) => ENABLED listen_put(h))

\* C3 witness: stop(dev) has returned, dev is out of the list, the stop signal
\* is not set, and dev's listener holds a frame it is about to put.
C3_Witness ==
    /\ Returned("stop") /\ ret = "ok"
    /\ arg[1] \notin Range(devs)
    /\ ~stop_listening
    /\ lpc[arg[1]] = "put"
    /\ \E g \in Range(devs) : lpc[g] \in Alive

\* C4: a listener whose recv raised OSError terminates without another recv,
\* and from then on its handle is not in the active list; the step that
\* handles the error leaves every other handle in the list, in order, and
\* every other listener, the queue and the stop signal as they were.
C4_FailedDeviceSelfDetaches ==
    /\ [](\A h \in Handles : lpc[h] \in {"detached", "crashed"} => h \notin Range(devs))
    /\ [][\A h \in Handles : (lpc[h] = "except" /\ lpc'[h] /= "except") =>
            /\ lpc'[h] \in Terminated
            /\ devs' = Without(devs, h)
            /\ \A g \in Handles \ {h} : lpc'[g] = lpc[g]
            /\ frames' = frames
            /\ stop_listening' = stop_listening]_vars

\* C4 witness: one listener has detached itself after an I/O error while
\* another device is still listed and its listener holds a frame to put.
C4_Witness ==
    \E h, g \in Handles :
        /\ lpc[h] = "detached"
        /\ h \notin Range(devs)
        /\ g \in Range(devs)
        /\ lpc[g] = "put"

C6_FifoExactlyOnce ==
    /\ enq = deq \o frames
    /\ \A i, j \in 1..Len(enq) : i /= j => enq[i] /= enq[j]
    /\ (Returned("receive") /\ ret = "FrameData") =>
            /\ deq /= <<>>
            /\ val = <<FrameData(deq[Len(deq)])>>

\* C6 witness: receive() has returned two frames of two devices, the frame of
\* the device attached last first, as it was put first.
C6_Witness ==
    /\ Len(deq) = 2
    /\ deq[1][2] = DevNames[2]
    /\ deq[2][2] = DevNames[1]
    /\ frames = <<>>
    /\ Returned("receive") /\ ret = "FrameData"
    /\ val[1].ndev = DevNames[1]

\* C7: a start() that fails ends with the error at the caller and leaves the
\* active list, the thread list and every listener as they were; a start()
\* that succeeds appends one new handle and one thread, running, for it.
C7_StartFailureLeavesBusUnchanged ==
    [][(cpc = "start" /\ cpc' = "idle") =>
            IF ret' = "ok"
            THEN /\ Len(devs') = Len(devs) + 1
                 /\ SubSeq(devs', 1, Len(devs)) = devs
                 /\ devs'[Len(devs')] \notin Range(threads)
                 /\ threads' = Append(threads, devs'[Len(devs')])
                 /\ lpc' = [lpc EXCEPT ![devs'[Len(devs')]] = "loop"]
            ELSE /\ ret' = "OSError"
                 /\ devs' = devs
                 /\ threads' = threads
                 /\ lpc' = lpc]_vars

\* C7 witness: a start() has failed on a bus that has one device attached.
C7_Witness ==
    /\ Returned("start") /\ ret = "OSError"
    /\ Len(devs) = 1
    /\ Len(threads) = 1

\* a listener has terminated and join() has not returned for it
Unjoined(h) == lpc[h] \in Terminated /\ h \notin joined

\* C8 (as claimed): a handle is in the active list if and only if its
\* listener is running, or has terminated and has not been joined.
C8_ListedIffListenerLive ==
    \A h \in Handles :
        h \in Range(devs) <=> (lpc[h] \in Alive \/ Unjoined(h))

\* C8 (amended): a handle in the active list occurs there once and has a
\* spawned listener that is running or has left its loop on the stop signal,
\* and is running as long as the stop signal is not set.
C8_ListedHasListener ==
    /\ \A i, j \in 1..Len(devs) : i /= j => devs[i] /= devs[j]
    /\ \A h \in Range(devs) :
        /\ h \in Range(threads)
        /\ lpc[h] \in Alive \cup {"exited"}
        /\ ~stop_listening => lpc[h] \in Alive

\* C8 witness: one handle is listed with its listener running, another is not
\* listed and its listener is running too.
C8_Witness ==
    \E h, g \in Handles :
        /\ h \in Range(devs) /\ lpc[h] = "recv"
        /\ g \notin Range(devs) /\ lpc[g] = "recv"
        /\ ~stop_listening

\* C9: the list running() has returned holds every handle that is still in
\* the active list and whose running predicate is true.
C9_RunningSkipsNoHandle ==
    (Returned("running") /\ ret = "list") =>
        \A h \in Range(devs) : dev_running[h] => h \in Range(val)

\* C10: the size of the table is the number of distinct arbitration ids of
\* the insertions made, so an insertion of an id already present leaves it.
C10_LenIsDistinctIds ==
    TableLen(table) = Cardinality({added[i].arb_id : i \in 1..Len(added)})

\* C10 witness: four insertions, of which two repeat an id, have left a table
\* of two entries.
C10_Witness ==
    /\ Len(added) = 4
    /\ added[1].arb_id = added[3].arb_id
    /\ added[2].arb_id = added[4].arb_id
    /\ added[1].arb_id /= added[2].arb_id
    /\ TableLen(table) = 2

\* the last call on a table was the method named
LastCall(c, name) == c /= <<>> /\ c[1] = name

\* the index in s of the last message with arbitration id k (0: none)
LastIndexOf(s, k) ==
    IF \E i \in 1..Len(s) : s[i].arb_id = k
    THEN CHOOSE i \in 1..Len(s) :
            /\ s[i].arb_id = k
            /\ \A j \in (i + 1)..Len(s) : s[j].arb_id /= k
    ELSE 0

\* C11: the table holds exactly the ids inserted, each with the message (as
\* stored: decoded when there is a parser) of the last insertion of that id,
\* and an insertion leaves the entry of every other id as it was.
C11_LastWriteWins ==
    /\ [](/\ DOMAIN table = {added[i].arb_id : i \in 1..Len(added)}
          /\ \A k \in DOMAIN table :
                table[k] = Stored(parser, added[LastIndexOf(added, k)]))
    /\ [][added' /= added =>
            \A k \in DOMAIN table :
                k /= added'[Len(added')].arb_id => (k \in DOMAIN table' /\ table'[k] = table[k])]_vars

\* C11 witness: an id was inserted twice with different messages, another id
\* between the two, and the table holds the second message of the one and the
\* message of the other.
C11_Witness ==
    /\ Len(added) = 3
    /\ added[1].arb_id = added[3].arb_id
    /\ added[1].message /= added[3].message
    /\ added[2].arb_id /= added[1].arb_id
    /\ table[added[3].arb_id] = Stored(parser, added[3])
    /\ table[added[2].arb_id] = Stored(parser, added[2])

\* the bound C12 gives: max(0, min(stop, size) - min(start, min(stop, size)))
Min(x, y) == IF x < y THEN x ELSE y
Max(x, y) == IF x > y THEN x ELSE y
WindowBound(start_, stop_, size) ==
    Max(0, Min(stop_, size) - Min(start_, Min(stop_, size)))

\* o is a run of consecutive entries of t in ascending order of their ids
IsSlice(o, t) ==
    \E i \in 0..TableLen(t) : \E j \in i..TableLen(t) :
        o = [k \in 1..(j - i) |-> t[SortedKeys(t)[i + k]]]

\* C12: the messages that iterating table(start, stop) has yielded are never
\* more than max(0, min(stop, size) - min(start, min(stop, size))), and they
\* are consecutive entries of the table in ascending order of arbitration id.
C12_WindowIsBoundedSlice ==
    win /= <<>> =>
        /\ Len(out) <= WindowBound(win[1], win[2], TableLen(table))
        /\ IsSlice(out, table)

C14_NestedFilterWithinUnion ==
    (qnested /= <<>> /\ qunion /= <<>>) =>
        Range(qnested[1]) \subseteq Range(qunion[1])

\* C14 (amended): the entries of table.filter(t1).filter(t2) are entries of
\* table.filter(t1 + t2), and under a window that starts at 0 and whose stop
\* is not below the size of table.filter(t1 + t2) each message of the first
\* is a message of the second.
C14_NestedFilterWithinUnionUnwindowed ==
    (qnested /= <<>> /\ qunion /= <<>>) =>
        LET nested == Filter(Filter(table, qarg[1].t1), qarg[1].t2)
            union == Filter(table, qarg[1].t1 \cup qarg[1].t2)
        IN /\ \A k \in DOMAIN nested : k \in DOMAIN union /\ union[k] = nested[k]
           /\ (qarg[1].a = 0 /\ qarg[1].b >= TableLen(union)) =>
                 Range(qnested[1]) \subseteq Range(qunion[1])

\* C14 witness: both windows start at 0 and reach the end; the nested filter
\* yields a message and the filter of the union yields that and another.
C14_Witness ==
    /\ qnested /= <<>> /\ qunion /= <<>>
    /\ qarg[1].a = 0
    /\ qarg[1].b >= TableLen(Filter(table, qarg[1].t1 \cup qarg[1].t2))
    /\ qarg[1].t1 /= qarg[1].t2
    /\ qnested[1] /= <<>>
    /\ Len(qunion[1]) > Len(qnested[1])

\* C15: an insertion whose parser.parse raised returns the table all the
\* same, and has stored the message as the caller gave it under its id,
\* leaving every other entry as it was.
C15_ParseFailureStoresRaw ==
    [][(LastCall(tcall', "add") /\ pret' = "raise" /\ tcall' /= tcall) =>
            /\ tret' = "self"
            /\ table' = [k \in DOMAIN table \cup {tcall'[2].arb_id} |->
                            IF k = tcall'[2].arb_id THEN tcall'[2] ELSE table[k]]]_vars

\* a for loop over the table is under way: __iter__ or a __next__ that
\* returned a message was the last call
Iterating ==
    \/ LastCall(tcall, "iter")
    \/ LastCall(tcall, "next") /\ wpc = "message"

\* C16: once an iteration of table(start, stop) has ended, a new iteration of
\* the same table without a new __call__ yields what the ended one has
\* yielded; and a __call__ made while an iteration is under way leaves what
\* that iteration is still to yield as it was.
C16_WindowHasNoSideEffect ==
    [][/\ (LastCall(tcall, "next") /\ wpc = "StopIteration" /\ LastCall(tcall', "iter")) =>
            Rest(table', w_keys'[1], w_start'[1], w_stop'[1]) = out
       /\ (Iterating /\ w_start /= <<>> /\ w_keys /= <<>> /\ LastCall(tcall', "call")) =>
            Rest(table', w_keys'[1], w_start'[1], w_stop'[1]) =
               Rest(table, w_keys[1], w_start[1], w_stop[1])]_vars

\* C17: once the stop signal is set, no listener begins a recv (so it puts at
\* most the one frame of the recv it was in), and the step by which a listener
\* terminates leaves the active list as it was.
C17_StopSignalBoundsListener ==
    [][\A h \in Handles : stop_listening =>
            /\ (lpc[h] /= "recv" => lpc'[h] /= "recv")
            /\ (lpc[h] = "put" /\ lpc'[h] /= "put" => lpc'[h] = "loop")
            /\ (lpc[h] \in Alive /\ lpc'[h] \in Terminated => devs' = devs)]_vars

\* C19: a handle is listed at most once and, once out of the list, is never
\* listed again; stop(dev) of the caller on a handle that is not listed
\* returns by raising ValueError, a listener's self-detach of a handle that is
\* not listed ends the listener with that error, and both leave the active
\* list as it was.
C19_AbsentHandleStopFails ==
    /\ [](\A i, j \in 1..Len(devs) : devs[i] = devs[j] => i = j)
    /\ [][/\ (cpc = "stop" /\ cpc' = "idle" /\ arg[1] \notin Range(devs)) =>
                (ret' = "ValueError" /\ devs' = devs)
           /\ \A h \in Handles :
                /\ (lpc[h] = "except" /\ lpc'[h] /= "except" /\ h \notin Range(devs)) =>
                      (lpc'[h] = "crashed" /\ devs' = devs)
                /\ (h \in Range(threads) /\ h \notin Range(devs)) =>
                      h \notin Range(devs')]_vars

\* C19 witness: the caller's second stop of a handle has raised ValueError,
\* and the listener of that handle, whose recv had failed, found the handle
\* gone and ended with the same error.
C19_Witness ==
    /\ Returned("stop") /\ ret = "ValueError"
    /\ arg[1] \notin Range(devs)
    /\ lpc[arg[1]] = "crashed"
    /\ devs /= <<>>

\* C20: the cursor of a pane is never below cursor_min and never above the
\* larger of cursor_min and cursor_max - 1, and the top of its window is
\* never negative.
C20_CursorAndTopInBounds ==
    /\ cursor_min <= cursor
    /\ cursor <= Max(cursor_min, cursor_max - 1)
    /\ 0 <= top

====
